---- MODULE Spec2Model ----
(***************************************************************************)
(* Model of advanced-vector/vector.h: RawMemory<T> (an owner of a block of *)
(* raw slots) and Vector<T> (a RawMemory plus the number of live objects). *)
(* Slot offsets are 0-based as in the source.  Every member function is    *)
(* one atomic action (the container is single-threaded); an exception      *)
(* thrown by the allocator or by an operation of T is selected by throwAt, *)
(* the ordinal of the throwing call inside the member function (0: none).  *)
(***************************************************************************)
EXTENDS Integers, Sequences, FiniteSets, TLC

\* ---- bounds -------------------------------------------------------------
MaxCap == 3
MaxVal == 1

Names == {"a", "b"}
MaxPair == MaxCap - 1
NumBlocks == Cardinality(Names) + 1
BlockIds == 1..NumBlocks
Values == 1..MaxVal

\* ---- representation of memory ------------------------------------------
Null == 0
Uninit == -2
MovedFrom == -1
Default == 0

Live(x) == x # Uninit

NoBlock == [i \in {} |-> Uninit]
Block(n) == [i \in 0..(n - 1) |-> Uninit]

Empty == [buffer_ |-> Null, capacity_ |-> 0]

VARIABLES T, heap, data_, size_, alive, last
vars == <<T, heap, data_, size_, alive, last>>

\* ---- the running member function ----------------------------------------
\* m is the state of one call: the heap, the calls that may throw counted
\* so far (n), the one that throws (t), the exception in flight (ex), and
\* the tallies of what the call did.
Start(h, t) ==
    [heap |-> h, t |-> t, n |-> 0, ex |-> FALSE, cause |-> "none",
     ctors |-> 0, dtors |-> 0, allocs |-> 0, frees |-> 0,
     lost |-> 0, bad |-> 0, temps |-> 0, asserts |-> 0]

\* a call that may throw: kind is "alloc" (operator new), "ctor" (a
\* constructor of T) or "assign" (an assignment operator of T)
Tick(m, kind) ==
    [m EXCEPT !.n = m.n + 1, !.ex = (m.n + 1 = m.t),
              !.cause = IF m.n + 1 = m.t THEN kind ELSE m.cause]

LiveCount(f) == Cardinality({i \in DOMAIN f : Live(f[i])})

LiveIn(f, lo, hi) == Cardinality({i \in DOMAIN f : lo <= i /\ i < hi /\ Live(f[i])})

NewBuf(h) == CHOOSE b \in BlockIds : h[b] = NoBlock /\ \A c \in BlockIds : c < b => h[c] # NoBlock

Allocate(m, n) ==
    IF n = 0 THEN m
    ELSE LET m1 == Tick(m, "alloc") IN
         IF m1.ex THEN m1
         ELSE [m1 EXCEPT !.heap[NewBuf(m.heap)] = Block(n), !.allocs = @ + 1]

AllocatePtr(m, n) == IF n = 0 THEN Null ELSE NewBuf(m.heap)

Deallocate(m, buf) ==
    IF buf = Null THEN m
    ELSE IF m.heap[buf] = NoBlock THEN [m EXCEPT !.bad = @ + 1]
    ELSE [m EXCEPT !.heap[buf] = NoBlock, !.frees = @ + 1,
                   !.lost = @ + LiveCount(m.heap[buf])]

RawMemorySwap(x, y) == [self |-> y, other |-> x]

\* placement new: constructs an object of value val in slot i of block b
ConstructAt(m, b, i, val, throws) ==
    LET m1 == IF throws THEN Tick(m, "ctor") ELSE m IN
    IF m1.ex THEN m1
    ELSE [m1 EXCEPT !.heap[b][i] = val, !.ctors = @ + 1,
                    !.lost = @ + (IF Live(m.heap[b][i]) THEN 1 ELSE 0),
                    !.bad = @ + (IF Live(val) THEN 0 ELSE 1)]

\* operator= of T on the live object in slot i of block b
AssignAt(m, b, i, val, throws) ==
    LET m1 == IF throws THEN Tick(m, "assign") ELSE m IN
    IF m1.ex THEN m1
    ELSE [m1 EXCEPT !.heap[b][i] = val,
                    !.bad = @ + (IF Live(m.heap[b][i]) /\ Live(val) THEN 0 ELSE 1)]

StdDestroyN(m, b, o, n) ==
    IF n = 0 THEN m
    ELSE [m EXCEPT !.heap[b] = [i \in DOMAIN m.heap[b] |->
                                 IF o <= i /\ i < o + n THEN Uninit ELSE m.heap[b][i]],
                   !.dtors = @ + n,
                   !.bad = @ + (n - LiveIn(m.heap[b], o, o + n))]

RECURSIVE UninitCopyLoop(_, _, _, _, _, _, _)
UninitCopyLoop(m, sb, so, n, db, do, i) ==
    IF i = n THEN m
    ELSE LET m1 == ConstructAt(m, db, do + i, m.heap[sb][so + i], TRUE) IN
         IF m1.ex THEN StdDestroyN(m1, db, do, i)
         ELSE UninitCopyLoop(m1, sb, so, n, db, do, i + 1)

\* the copy loop without the destruction of the copies already made
RECURSIVE UninitCopyNoRollbackLoop(_, _, _, _, _, _, _)
UninitCopyNoRollbackLoop(m, sb, so, n, db, do, i) ==
    IF i = n THEN m
    ELSE LET m1 == ConstructAt(m, db, do + i, m.heap[sb][so + i], TRUE) IN
         IF m1.ex THEN m1
         ELSE UninitCopyNoRollbackLoop(m1, sb, so, n, db, do, i + 1)

\* mutant: a throwing copy leaves the copies made before it alive
UninitializedCopyN_NoRollback(m, sb, so, n, db, do) ==
    UninitCopyNoRollbackLoop(m, sb, so, n, db, do, 0)

UninitializedCopyN(m, sb, so, n, db, do) == UninitCopyLoop(m, sb, so, n, db, do, 0)

RECURSIVE UninitMoveLoop(_, _, _, _, _, _, _)
UninitMoveLoop(m, sb, so, n, db, do, i) ==
    IF i = n THEN m
    ELSE LET m1 == ConstructAt(m, db, do + i, m.heap[sb][so + i],
                               ~T.nothrow_move_constructible) IN
         IF m1.ex THEN StdDestroyN(m1, db, do, i)
         ELSE UninitMoveLoop([m1 EXCEPT !.heap[sb][so + i] = MovedFrom],
                             sb, so, n, db, do, i + 1)

UninitializedMoveN(m, sb, so, n, db, do) == UninitMoveLoop(m, sb, so, n, db, do, 0)

RECURSIVE UninitValueLoop(_, _, _, _, _)
UninitValueLoop(m, b, o, n, i) ==
    IF i = n THEN m
    ELSE LET m1 == ConstructAt(m, b, o + i, Default, TRUE) IN
         IF m1.ex THEN StdDestroyN(m1, b, o, i)
         ELSE UninitValueLoop(m1, b, o, n, i + 1)

UninitializedValueConstructN(m, b, o, n) == UninitValueLoop(m, b, o, n, 0)

\* std::copy(first, first + n, d_first): copy assignment, front to back
RECURSIVE StdCopyLoop(_, _, _, _, _, _, _)
StdCopyLoop(m, sb, so, n, db, do, i) ==
    IF i = n THEN m
    ELSE LET m1 == AssignAt(m, db, do + i, m.heap[sb][so + i], TRUE) IN
         IF m1.ex THEN m1 ELSE StdCopyLoop(m1, sb, so, n, db, do, i + 1)

\* mutant: std::copy that assigns nothing
StdCopy_CopiesNothing(m, sb, so, n, db, do) == m

StdCopy(m, sb, so, n, db, do) == StdCopyLoop(m, sb, so, n, db, do, 0)

\* move assignment of slot si of block b into slot di of the same block
MoveAssignSlot(m, b, si, di) ==
    LET m1 == AssignAt(m, b, di, m.heap[b][si], ~T.nothrow_move_assignable) IN
    IF m1.ex \/ si = di THEN m1 ELSE [m1 EXCEPT !.heap[b][si] = MovedFrom]

\* std::move(first, last, d_first) inside one block: front to back
RECURSIVE StdMoveLoop(_, _, _, _, _, _)
StdMoveLoop(m, b, first, lst, dfirst, i) ==
    IF first + i >= lst THEN m
    ELSE LET m1 == MoveAssignSlot(m, b, first + i, dfirst + i) IN
         IF m1.ex THEN m1 ELSE StdMoveLoop(m1, b, first, lst, dfirst, i + 1)

StdMove(m, b, first, lst, dfirst) == StdMoveLoop(m, b, first, lst, dfirst, 0)

\* std::move_backward(first, last, d_last) inside one block: back to front
RECURSIVE StdMoveBackwardLoop(_, _, _, _, _, _)
StdMoveBackwardLoop(m, b, first, lst, dlast, i) ==
    IF lst - i <= first THEN m
    ELSE LET m1 == MoveAssignSlot(m, b, lst - i - 1, dlast - i - 1) IN
         IF m1.ex THEN m1 ELSE StdMoveBackwardLoop(m1, b, first, lst, dlast, i + 1)

\* mutant: the first element of the range is not moved
StdMoveBackward_SkipsFirst(m, b, first, lst, dlast) ==
    StdMoveBackwardLoop(m, b, first + 1, lst, dlast, 0)

StdMoveBackward(m, b, first, lst, dlast) == StdMoveBackwardLoop(m, b, first, lst, dlast, 0)

\* mutant: relocation that never falls back to copying
CopyOrMoveNElem_AlwaysMove(m, sb, so, count, db, do) ==
    UninitializedMoveN(m, sb, so, count, db, do)

CopyOrMoveNElem(m, sb, so, count, db, do) ==
    IF T.nothrow_move_constructible \/ ~T.copy_constructible
    THEN UninitializedMoveN(m, sb, so, count, db, do)
    ELSE UninitializedCopyN(m, sb, so, count, db, do)

\* ---- RawMemory<T> -------------------------------------------------------
\* assert(offset <= capacity_) of operator+ and assert(index < capacity_)
\* of operator[]: a failed assertion is tallied in m.asserts
\* mutant: the assertion of operator+ rejects the offset capacity_
OpPlus_Strict(m, d, offset) ==
    IF offset < d.capacity_ THEN m ELSE [m EXCEPT !.asserts = @ + 1]

OpPlus(m, d, offset) ==
    IF offset <= d.capacity_ THEN m ELSE [m EXCEPT !.asserts = @ + 1]

OpIndex(m, d, index) ==
    IF index < d.capacity_ THEN m ELSE [m EXCEPT !.asserts = @ + 1]

RawMemoryCtor(m, capacity) ==
    LET m1 == Allocate(m, capacity) IN
    [m |-> m1,
     d |-> IF m1.ex THEN Empty
           ELSE [buffer_ |-> AllocatePtr(m, capacity), capacity_ |-> capacity]]

RawMemoryDtor(m, d) == Deallocate(m, d.buffer_)

\* RawMemory(RawMemory&& other): the new object starts from the default
\* member initializers and swaps with other
RawMemoryMoveCtor(other) == RawMemorySwap(Empty, other)

\* mutant: *this takes the pair of other, other keeps it
RawMemoryMoveAssign_Aliases(self, other, same) == [self |-> other, other |-> other]

\* RawMemory& operator=(RawMemory&& other)
RawMemoryMoveAssign(self, other, same) ==
    IF same THEN [self |-> self, other |-> other]
    ELSE RawMemorySwap(self, other)

\* ---- Vector<T> member functions -----------------------------------------
\* Each takes the call state m and the members data_ (d) and size_ (s) of
\* *this and yields the call state and the members when the call returns
\* or throws (m.ex), the returned iterator as an offset into d (ret) and
\* the branch taken (path).
Res(m, d, s, ret, path) == [m |-> m, d |-> d, s |-> s, ret |-> ret, path |-> path]

VectorSized(m, size) ==
    LET rm == RawMemoryCtor(m, size) IN
    IF rm.m.ex THEN Res(rm.m, Empty, 0, -1, "alloc")
    ELSE LET m1 == UninitializedValueConstructN(rm.m, rm.d.buffer_, 0, size) IN
         IF m1.ex THEN Res(RawMemoryDtor(m1, rm.d), Empty, 0, -1, "construct")
         ELSE Res(m1, rm.d, size, -1, "done")

\* mutant: memberwise copy, the new vector points at the source's block
VectorCopy_Shallow(m, od, os) == Res(m, od, os, -1, "done")

VectorCopy(m, od, os) ==
    LET rm == RawMemoryCtor(m, os) IN
    IF rm.m.ex THEN Res(rm.m, Empty, 0, -1, "alloc")
    ELSE LET m1 == UninitializedCopyN(rm.m, od.buffer_, 0, os, rm.d.buffer_, 0) IN
         IF m1.ex THEN Res(RawMemoryDtor(m1, rm.d), Empty, 0, -1, "construct")
         ELSE Res(m1, rm.d, os, -1, "done")

\* mutant: the destructor releases the block and destroys no element
VectorDtor_ReleasesOnly(m, d, s) == RawMemoryDtor(m, d)

VectorDtor(m, d, s) == RawMemoryDtor(StdDestroyN(m, d.buffer_, 0, s), d)

Min(x, y) == IF x < y THEN x ELSE y

\* mutant: the old block is released without destroying its objects
Reserve_NoDestroy(m, d, s, new_capacity) ==
    IF d.capacity_ < new_capacity
    THEN LET rm == RawMemoryCtor(m, new_capacity) IN
         IF rm.m.ex THEN Res(rm.m, d, s, -1, "alloc")
         ELSE LET m1 == CopyOrMoveNElem(rm.m, d.buffer_, 0, s, rm.d.buffer_, 0) IN
              IF m1.ex THEN Res(RawMemoryDtor(m1, rm.d), d, s, -1, "relocate")
              ELSE LET sw == RawMemorySwap(d, rm.d)
                   IN Res(RawMemoryDtor(m1, sw.other), sw.self, s, -1, "realloc")
    ELSE Res(m, d, s, -1, "noop")

Reserve(m, d, s, new_capacity) ==
    IF d.capacity_ < new_capacity
    THEN LET rm == RawMemoryCtor(m, new_capacity) IN
         IF rm.m.ex THEN Res(rm.m, d, s, -1, "alloc")
         ELSE LET m1 == CopyOrMoveNElem(rm.m, d.buffer_, 0, s, rm.d.buffer_, 0) IN
              IF m1.ex THEN Res(RawMemoryDtor(m1, rm.d), d, s, -1, "relocate")
              ELSE LET m2 == StdDestroyN(m1, d.buffer_, 0, s)
                       sw == RawMemorySwap(d, rm.d)
                   IN Res(RawMemoryDtor(m2, sw.other), sw.self, s, -1, "realloc")
    ELSE Res(m, d, s, -1, "noop")

\* mutant: growing only reserves and sets the size
Resize_SetsSizeOnly(m, d, s, new_size) ==
    IF new_size = s THEN Res(m, d, s, -1, "noop")
    ELSE IF new_size < s
    THEN Res(StdDestroyN(OpPlus(m, d, new_size), d.buffer_, new_size, s - new_size),
             d, new_size, -1, "shrink")
    ELSE LET r == Reserve(m, d, s, new_size) IN
         IF r.m.ex THEN r ELSE Res(r.m, r.d, new_size, -1, "grow")

Resize(m, d, s, new_size) ==
    IF new_size = s THEN Res(m, d, s, -1, "noop")
    ELSE IF new_size < s
    THEN Res(StdDestroyN(OpPlus(m, d, new_size), d.buffer_, new_size, s - new_size),
             d, new_size, -1, "shrink")
    ELSE LET r == Reserve(m, d, s, new_size) IN
         IF r.m.ex THEN r
         ELSE LET m1 == UninitializedValueConstructN(OpPlus(r.m, r.d, s), r.d.buffer_,
                                                     s, new_size - s) IN
              IF m1.ex THEN Res(m1, r.d, s, -1, "construct")
              ELSE Res(m1, r.d, new_size, -1, "grow")

\* mutant: the last object is destroyed and the size is kept
PopBack_KeepsSize(m, d, s) ==
    IF s > 0
    THEN Res(StdDestroyN(OpPlus(m, d, s), d.buffer_, s - 1, 1), d, s, -1, "pop")
    ELSE Res(m, d, s, -1, "noop")

PopBack(m, d, s) ==
    IF s > 0
    THEN Res(StdDestroyN(OpPlus(m, d, s), d.buffer_, s - 1, 1), d, s - 1, -1, "pop")
    ELSE Res(m, d, s, -1, "noop")

\* mutant: the shift starts at index instead of index + 1
Erase_ShiftsFromIndex(m, d, s, index) ==
    LET m1 == StdMove(m, d.buffer_, index, s, index)
    IN IF m1.ex THEN Res(m1, d, s, -1, "assign")
       ELSE Res(StdDestroyN(m1, d.buffer_, s - 1, 1), d, s - 1, index, "erase")

Erase(m, d, s, index) ==
    LET m0 == OpPlus(OpPlus(OpPlus(m, d, s), d, index), d, index)
        m1 == StdMove(m0, d.buffer_, index + 1, s, index)
    IN IF m1.ex THEN Res(m1, d, s, -1, "assign")
       ELSE Res(StdDestroyN(OpPlus(OpPlus(m1, d, s), d, index), d.buffer_, s - 1, 1),
                d, s - 1, index, "erase")

\* The argument of Emplace: kind "args" (a constructor of T taking args),
\* "copy" (const T&), "move" (T&&) of a value outside the container, or
\* "self" (const T& bound to element j of this container).
ArgValue(m, d, src) == IF src.kind = "self" THEN m.heap[d.buffer_][src.j] ELSE src.val

ArgThrows(src) == IF src.kind = "move" THEN ~T.nothrow_move_constructible ELSE TRUE

\* mutant: the capacity grows by two elements
EmplaceNewCapacity_PlusTwo(s) == s + 2

EmplaceNewCapacity(s) == IF s = 0 THEN 1 ELSE s * 2

EmplaceAtEnd(m, d, s, src) ==
    LET m1 == ConstructAt(OpPlus(OpPlus(m, d, s), d, s), d.buffer_, s,
                          ArgValue(m, d, src), ArgThrows(src)) IN
    IF m1.ex THEN Res(m1, d, s, -1, "end")
    ELSE Res(OpPlus(m1, d, s + 1), d, s + 1, s, "end")

\* T* value = new T(args): operator new, then the constructor; the object
\* lives outside every block and is tallied in m.temps until deleted
NewTemp(m, throws) ==
    LET m1 == Tick(m, "alloc") IN
    IF m1.ex THEN m1
    ELSE LET m2 == IF throws THEN Tick(m1, "ctor") ELSE m1 IN
         IF m2.ex THEN m2 ELSE [m2 EXCEPT !.ctors = @ + 1, !.temps = @ + 1]

DeleteTemp(m) == [m EXCEPT !.dtors = @ + 1, !.temps = @ - 1]

\* mutant: no temporary, the argument is read after the elements are shifted
EmplaceInPlace_ReadsArgLate(m, d, s, index, src) ==
    LET m2 == CopyOrMoveNElem(m, d.buffer_, s - 1, 1, d.buffer_, s) IN
    IF m2.ex THEN Res(m2, d, s, -1, "inplace")
    ELSE LET m3 == StdMoveBackward(m2, d.buffer_, index, s - 1, s) IN
         IF m3.ex THEN Res(m3, d, s, -1, "inplace")
         ELSE LET m4 == AssignAt(m3, d.buffer_, index, ArgValue(m3, d, src), TRUE) IN
              IF m4.ex THEN Res(m4, d, s, -1, "inplace")
              ELSE Res(m4, d, s + 1, index, "inplace")

EmplaceInPlace(m, d, s, index, src) ==
    LET value == ArgValue(m, d, src)
        m1 == NewTemp(OpPlus(m, d, s), ArgThrows(src))
    IN IF m1.ex THEN Res(m1, d, s, -1, "inplace")
       ELSE LET m2 == CopyOrMoveNElem(OpPlus(OpPlus(m1, d, s), d, s),
                                      d.buffer_, s - 1, 1, d.buffer_, s) IN
            IF m2.ex THEN Res(m2, d, s, -1, "inplace")
            ELSE LET m3 == StdMoveBackward(OpPlus(OpPlus(OpPlus(m2, d, index), d, s), d, s),
                                           d.buffer_, index, s - 1, s) IN
                 IF m3.ex THEN Res(m3, d, s, -1, "inplace")
                 ELSE LET m4 == AssignAt(OpPlus(m3, d, index), d.buffer_, index, value,
                                         ~T.nothrow_move_assignable) IN
                      IF m4.ex THEN Res(m4, d, s, -1, "inplace")
                      ELSE Res(OpPlus(DeleteTemp(m4), d, index), d, s + 1, index, "inplace")

\* mutant: a failure in the suffix step destroys the prefix only, not the
\* new element
EmplaceRealloc_LeavesNewElement(m, d, s, index, src) ==
    LET rm == RawMemoryCtor(m, EmplaceNewCapacity(s)) IN
    IF rm.m.ex THEN Res(rm.m, d, s, -1, "realloc")
    ELSE
    LET nd == rm.d
        m1 == ConstructAt(OpPlus(rm.m, nd, index), nd.buffer_, index,
                          ArgValue(m, d, src), ArgThrows(src))
    IN IF m1.ex THEN Res(RawMemoryDtor(m1, nd), d, s, -1, "realloc")
       ELSE
       LET m2 == CopyOrMoveNElem(m1, d.buffer_, 0, index, nd.buffer_, 0) IN
       IF m2.ex
       THEN Res(RawMemoryDtor(StdDestroyN(OpPlus(m2, nd, index), nd.buffer_, index, 1), nd),
                d, s, -1, "realloc")
       ELSE
       LET m3 == CopyOrMoveNElem(OpPlus(OpPlus(m2, d, index), nd, index + 1),
                                 d.buffer_, index, s - index, nd.buffer_, index + 1) IN
       IF m3.ex
       THEN Res(RawMemoryDtor(StdDestroyN(m3, nd.buffer_, 0, index), nd),
                d, s, -1, "realloc")
       ELSE
       LET m4 == StdDestroyN(m3, d.buffer_, 0, s)
           sw == RawMemorySwap(d, nd)
       IN Res(OpPlus(RawMemoryDtor(m4, sw.other), sw.self, index),
              sw.self, s + 1, index, "realloc")

EmplaceRealloc(m, d, s, index, src) ==
    LET rm == RawMemoryCtor(m, EmplaceNewCapacity(s)) IN
    IF rm.m.ex THEN Res(rm.m, d, s, -1, "realloc")
    ELSE
    LET nd == rm.d
        m1 == ConstructAt(OpPlus(rm.m, nd, index), nd.buffer_, index,
                          ArgValue(m, d, src), ArgThrows(src))
    IN IF m1.ex THEN Res(RawMemoryDtor(m1, nd), d, s, -1, "realloc")
       ELSE
       LET m2 == CopyOrMoveNElem(m1, d.buffer_, 0, index, nd.buffer_, 0) IN
       IF m2.ex
       THEN Res(RawMemoryDtor(StdDestroyN(OpPlus(m2, nd, index), nd.buffer_, index, 1), nd),
                d, s, -1, "realloc")
       ELSE
       LET m3 == CopyOrMoveNElem(OpPlus(OpPlus(m2, d, index), nd, index + 1),
                                 d.buffer_, index, s - index, nd.buffer_, index + 1) IN
       IF m3.ex
       THEN Res(RawMemoryDtor(StdDestroyN(m3, nd.buffer_, 0, index + 1), nd),
                d, s, -1, "realloc")
       ELSE
       LET m4 == StdDestroyN(m3, d.buffer_, 0, s)
           sw == RawMemorySwap(d, nd)
       IN Res(OpPlus(RawMemoryDtor(m4, sw.other), sw.self, index),
              sw.self, s + 1, index, "realloc")

\* assert(begin() <= pos && pos <= end()) evaluates data_ + size_
Emplace(m, d, s, index, src) ==
    LET m0 == OpPlus(m, d, s) IN
    IF d.capacity_ >= s + 1
    THEN IF index = s
         THEN EmplaceAtEnd(m0, d, s, src)
         ELSE EmplaceInPlace(m0, d, s, index, src)
    ELSE EmplaceRealloc(m0, d, s, index, src)

\* mutant: the blocks are exchanged, the sizes are not
VectorSwap_KeepsSizes(d, s, od, os) ==
    LET sw == RawMemorySwap(d, od) IN
    [d |-> sw.self, s |-> s, od |-> sw.other, os |-> os]

VectorSwap(d, s, od, os) ==
    LET sw == RawMemorySwap(d, od) IN
    [d |-> sw.self, s |-> os, od |-> sw.other, os |-> s]

\* mutant: every assignment from another vector copies and swaps
CopyAssign_AlwaysCopies(m, d, s, od, os, same) ==
    IF same THEN Res(m, d, s, -1, "self")
    ELSE LET c == VectorCopy(m, od, os) IN
         IF c.m.ex THEN Res(c.m, d, s, -1, "copy_swap")
         ELSE LET sw == VectorSwap(d, s, c.d, c.s) IN
              Res(VectorDtor(c.m, sw.od, sw.os), sw.d, sw.s, -1, "copy_swap")

CopyAssign(m, d, s, od, os, same) ==
    IF same THEN Res(m, d, s, -1, "self")
    ELSE IF d.capacity_ < os
    THEN LET c == VectorCopy(m, od, os) IN
         IF c.m.ex THEN Res(c.m, d, s, -1, "copy_swap")
         ELSE LET sw == VectorSwap(d, s, c.d, c.s) IN
              Res(VectorDtor(c.m, sw.od, sw.os), sw.d, sw.s, -1, "copy_swap")
    ELSE LET m1 == StdCopy(OpPlus(m, od, Min(s, os)), od.buffer_, 0, Min(s, os),
                           d.buffer_, 0) IN
         IF m1.ex THEN Res(m1, d, s, -1, "reuse")
         ELSE IF s < os
         THEN LET m2 == UninitializedCopyN(OpPlus(OpPlus(m1, od, s), d, s),
                                           od.buffer_, s, os - s, d.buffer_, s) IN
              IF m2.ex THEN Res(m2, d, s, -1, "reuse") ELSE Res(m2, d, os, -1, "reuse")
         ELSE Res(StdDestroyN(m1, d.buffer_, os, s - os), d, os, -1, "reuse")

\* mutant: *this takes the source's members, the source keeps its own
MoveAssign_Steals(d, s, od, os, same) ==
    IF same THEN [d |-> d, s |-> s, od |-> od, os |-> os]
    ELSE [d |-> od, s |-> os, od |-> od, os |-> os]

MoveAssign(d, s, od, os, same) ==
    IF same THEN [d |-> d, s |-> s, od |-> od, os |-> os]
    ELSE VectorSwap(d, s, od, os)

\* T& operator[](index) followed by a copy assignment to the element
IndexAssign(m, d, s, index, val) ==
    Res(AssignAt(OpIndex(m, d, index), d.buffer_, index, val, TRUE), d, s, -1, "write")

\* ---- the program: calls on the vectors a and b ---------------------------
\* The element types explored: move construction and move assignment are
\* both noexcept or both throwing, and T is copy constructible or move-only.
\* (A move-only T with noexcept moves takes the same branches as the copy
\* constructible one, without the copying calls, and is left out.)
ElementTypes ==
    {e \in [nothrow_move_constructible : BOOLEAN, nothrow_move_assignable : BOOLEAN,
            copy_constructible : BOOLEAN] :
        /\ e.nothrow_move_assignable = e.nothrow_move_constructible
        /\ e.nothrow_move_constructible => e.copy_constructible}

Note(op, v, w, idx, val, r) ==
    [op |-> op, v |-> v, w |-> w, idx |-> idx, val |-> IF r.m.ex THEN -1 ELSE val,
     ex |-> r.m.ex, throwAt |-> IF r.m.ex THEN r.m.t ELSE 0, cause |-> r.m.cause,
     path |-> r.path, ret |-> r.ret,
     ctors |-> r.m.ctors, dtors |-> r.m.dtors, allocs |-> r.m.allocs,
     frees |-> r.m.frees, lost |-> r.m.lost, bad |-> r.m.bad,
     temps |-> r.m.temps, asserts |-> r.m.asserts]

Quiet(path) == Res(Start(heap, 0), Empty, 0, -1, path)

\* last describes the call the caller has just made, until the caller has
\* looked at its outcome (Continue); NoCall: no outcome is pending.
NoCall == Note("none", "a", "a", -1, -1, Quiet("none"))

Idle == last.op = "none"

Init ==
    /\ T \in ElementTypes
    /\ heap = [b \in BlockIds |-> NoBlock]
    /\ data_ = [v \in Names |-> Empty]
    /\ size_ = [v \in Names |-> 0]
    /\ alive = [v \in Names |-> FALSE]
    /\ last = NoCall

\* The caller declares a and then b, as block-scoped variables: b is
\* constructed while a exists and destroyed before a.
Declarable(v) == v = "a" \/ alive["a"]

Disposable(v) == v # "a" \/ \A w \in Names \ {"a"} : ~alive[w]

\* The states explored: a vector alone has a capacity of at most MaxCap, and
\* the capacities of two vectors that exist together sum to at most MaxPair.
\* Room(v) is the largest capacity v may have; a call is explored when it
\* leaves the capacity of v within Room(v) or does not raise it.
RECURSIVE SumCap(_)
SumCap(S) ==
    IF S = {} THEN 0
    ELSE LET w == CHOOSE x \in S : TRUE IN data_[w].capacity_ + SumCap(S \ {w})

Room(v) ==
    IF \A w \in Names \ {v} : ~alive[w] THEN MaxCap
    ELSE MaxPair - SumCap(Names \ {v})

Bounded(v, r) ==
    r.d.capacity_ <= data_[v].capacity_ \/ r.d.capacity_ <= Room(v)

\* the calls that may throw in the run r0 of a member function that ran to
\* its end, numbered from 1; 0 stands for a run in which nothing throws
Throwing(r0) == 0..r0.m.n

\* a member function of v returning or throwing with result r
Return(v, r, note) ==
    /\ heap' = r.m.heap
    /\ data_' = [data_ EXCEPT ![v] = r.d]
    /\ size_' = [size_ EXCEPT ![v] = r.s]
    /\ last' = note
    /\ UNCHANGED <<T, alive>>

\* a constructor of v: v exists afterwards unless the constructor threw
Constructed(v, r, note) ==
    /\ heap' = r.m.heap
    /\ data_' = [data_ EXCEPT ![v] = r.d]
    /\ size_' = [size_ EXCEPT ![v] = r.s]
    /\ alive' = [alive EXCEPT ![v] = ~r.m.ex]
    /\ last' = note
    /\ UNCHANGED T

DefaultCtor(v) ==
    /\ Idle
    /\ ~alive[v] /\ Declarable(v) /\ 0 <= Room(v)
    /\ Constructed(v, Quiet("done"), Note("Vector()", v, v, -1, -1, Quiet("done")))

SizedCtor(v, n) ==
    /\ Idle
    /\ ~alive[v] /\ Declarable(v)
    /\ \E t \in Throwing(VectorSized(Start(heap, 0), n)) :
         LET r == VectorSized(Start(heap, t), n)
         IN (r.m.ex \/ 0 <= Room(v)) /\ Bounded(v, r)
            /\ Constructed(v, r, Note("Vector(size)", v, v, n, -1, r))

CopyCtor(v, w) ==
    /\ Idle
    /\ ~alive[v] /\ Declarable(v) /\ alive[w] /\ T.copy_constructible
    /\ \E t \in Throwing(VectorCopy(Start(heap, 0), data_[w], size_[w])) :
         LET r == VectorCopy(Start(heap, t), data_[w], size_[w])
         IN (r.m.ex \/ 0 <= Room(v)) /\ Bounded(v, r)
            /\ Constructed(v, r, Note("Vector(copy)", v, w, -1, -1, r))

MoveCtor(v, w) ==
    /\ Idle
    /\ ~alive[v] /\ Declarable(v) /\ alive[w] /\ 0 <= Room(v)
    /\ LET sw == VectorSwap(Empty, 0, data_[w], size_[w]) IN
       /\ data_' = [data_ EXCEPT ![v] = sw.d, ![w] = sw.od]
       /\ size_' = [size_ EXCEPT ![v] = sw.s, ![w] = sw.os]
       /\ alive' = [alive EXCEPT ![v] = TRUE]
       /\ last' = Note("Vector(move)", v, w, -1, -1, Quiet("done"))
       /\ UNCHANGED <<T, heap>>

CopyAssignCall(v, w) ==
    /\ Idle
    /\ alive[v] /\ alive[w] /\ T.copy_constructible
    /\ \E t \in Throwing(CopyAssign(Start(heap, 0), data_[v], size_[v], data_[w], size_[w], v = w)) :
         LET r == CopyAssign(Start(heap, t), data_[v], size_[v], data_[w], size_[w], v = w)
         IN Bounded(v, r)
            /\ Return(v, r, Note("operator=(copy)", v, w, -1, -1, r))

MoveAssignCall(v, w) ==
    /\ Idle
    /\ alive[v] /\ alive[w]
    /\ LET sw == MoveAssign(data_[v], size_[v], data_[w], size_[w], v = w) IN
       /\ data_' = [data_ EXCEPT ![w] = sw.od, ![v] = sw.d]
       /\ size_' = [size_ EXCEPT ![w] = sw.os, ![v] = sw.s]
       /\ last' = Note("operator=(move)", v, w, -1, -1, Quiet("done"))
       /\ UNCHANGED <<T, heap, alive>>

SwapCall(v, w) ==
    /\ Idle
    /\ alive[v] /\ alive[w]
    /\ LET sw == VectorSwap(data_[v], size_[v], data_[w], size_[w]) IN
       /\ data_' = [data_ EXCEPT ![w] = sw.od, ![v] = sw.d]
       /\ size_' = [size_ EXCEPT ![w] = sw.os, ![v] = sw.s]
       /\ last' = Note("Swap", v, w, -1, -1, Quiet("done"))
       /\ UNCHANGED <<T, heap, alive>>

Dtor(v) ==
    /\ Idle
    /\ alive[v] /\ Disposable(v)
    /\ LET r == Res(VectorDtor(Start(heap, 0), data_[v], size_[v]), Empty, 0, -1, "done") IN
       /\ heap' = r.m.heap
       /\ data_' = [data_ EXCEPT ![v] = Empty]
       /\ size_' = [size_ EXCEPT ![v] = 0]
       /\ alive' = [alive EXCEPT ![v] = FALSE]
       /\ last' = Note("~Vector", v, v, -1, -1, r)
       /\ UNCHANGED T

ResizeCall(v, n) ==
    /\ Idle
    /\ alive[v]
    /\ \E t \in Throwing(Resize(Start(heap, 0), data_[v], size_[v], n)) :
         LET r == Resize(Start(heap, t), data_[v], size_[v], n)
         IN Bounded(v, r)
            /\ Return(v, r, Note("Resize", v, v, n, -1, r))

ReserveCall(v, n) ==
    /\ Idle
    /\ alive[v]
    /\ \E t \in Throwing(Reserve(Start(heap, 0), data_[v], size_[v], n)) :
         LET r == Reserve(Start(heap, t), data_[v], size_[v], n)
         IN Bounded(v, r)
            /\ Return(v, r, Note("Reserve", v, v, n, -1, r))

PopBackCall(v) ==
    /\ Idle
    /\ alive[v]
    /\ LET r == PopBack(Start(heap, 0), data_[v], size_[v]) IN
       Return(v, r, Note("PopBack", v, v, -1, -1, r))

EraseCall(v, i) ==
    /\ Idle
    /\ alive[v] /\ i < size_[v]
    /\ \E t \in Throwing(Erase(Start(heap, 0), data_[v], size_[v], i)) :
         LET r == Erase(Start(heap, t), data_[v], size_[v], i)
         IN Return(v, r, Note("Erase", v, v, i, -1, r))

\* Emplace(begin() + i, args) with arguments outside the container, which
\* Insert(begin() + i, value) forwards to; EmplaceBack(args) and
\* PushBack(value) are the call with i = Size()
EmplaceCall(v, i, x) ==
    /\ Idle
    /\ alive[v] /\ i <= size_[v]
    /\ \E t \in Throwing(Emplace(Start(heap, 0), data_[v], size_[v], i, [kind |-> "args", val |-> x])) :
         LET r == Emplace(Start(heap, t), data_[v], size_[v], i, [kind |-> "args", val |-> x])
         IN Bounded(v, r)
            /\ Return(v, r, Note("Emplace", v, v, i, x, r))

\* Insert(begin() + i, v[j])
InsertSelfCall(v, i, j) ==
    /\ Idle
    /\ alive[v] /\ i <= size_[v] /\ j < size_[v] /\ T.copy_constructible
    /\ \E t \in Throwing(Emplace(Start(heap, 0), data_[v], size_[v], i, [kind |-> "self", j |-> j])) :
         LET r == Emplace(Start(heap, t), data_[v], size_[v], i, [kind |-> "self", j |-> j])
         IN Bounded(v, r)
            /\ Return(v, r, Note("InsertSelf", v, v, i, j, r))

IndexAssignCall(v, i, x) ==
    /\ Idle
    /\ alive[v] /\ i < size_[v] /\ T.copy_constructible
    /\ \E t \in Throwing(IndexAssign(Start(heap, 0), data_[v], size_[v], i, x)) :
         LET r == IndexAssign(Start(heap, t), data_[v], size_[v], i, x)
         IN Return(v, r, Note("operator[]=", v, v, i, x, r))

Continue ==
    /\ ~Idle
    /\ last' = NoCall
    /\ UNCHANGED <<T, heap, data_, size_, alive>>

Sizes == 0..MaxCap

Next ==
    \/ \E v \in Names : DefaultCtor(v)
    \/ \E v \in Names, n \in Sizes : SizedCtor(v, n)
    \/ \E v \in Names, w \in Names : CopyCtor(v, w)
    \/ \E v \in Names, w \in Names : MoveCtor(v, w)
    \/ \E v \in Names, w \in Names : CopyAssignCall(v, w)
    \/ \E v \in Names, w \in Names : MoveAssignCall(v, w)
    \/ \E v \in Names, w \in Names : SwapCall(v, w)
    \/ \E v \in Names : Dtor(v)
    \/ \E v \in Names, n \in Sizes : ResizeCall(v, n)
    \/ \E v \in Names, n \in Sizes : ReserveCall(v, n)
    \/ \E v \in Names : PopBackCall(v)
    \/ \E v \in Names, i \in Sizes : EraseCall(v, i)
    \/ \E v \in Names, i \in Sizes, x \in Values : EmplaceCall(v, i, x)
    \/ \E v \in Names, i \in Sizes, j \in Sizes : InsertSelfCall(v, i, j)
    \/ \E v \in Names, i \in Sizes, x \in Values : IndexAssignCall(v, i, x)
    \/ Continue

Spec == Init /\ [][Next]_vars

\* ---- the program: calls on the RawMemory objects a and b ------------------
\* data_[v] is the RawMemory object v, which holds no element (size_[v] = 0)
RawInstalled(v, d, al, h, note) ==
    /\ heap' = h
    /\ data_' = [data_ EXCEPT ![v] = d]
    /\ alive' = [alive EXCEPT ![v] = al]
    /\ last' = note
    /\ UNCHANGED <<T, size_>>

RawDefaultCtor(v) ==
    /\ Idle
    /\ ~alive[v] /\ Declarable(v)
    /\ RawInstalled(v, Empty, TRUE, heap, Note("RawMemory()", v, v, -1, -1, Quiet("done")))

RawSizedCtor(v, n) ==
    /\ Idle
    /\ ~alive[v] /\ Declarable(v)
    /\ \E t \in Throwing(Res(RawMemoryCtor(Start(heap, 0), n).m, Empty, 0, -1, "done")) :
         LET rm == RawMemoryCtor(Start(heap, t), n)
             r == Res(rm.m, rm.d, 0, -1, "done")
         IN RawInstalled(v, rm.d, ~rm.m.ex, rm.m.heap,
                         Note("RawMemory(capacity)", v, v, n, -1, r))

RawMoveCtor(v, w) ==
    /\ Idle
    /\ ~alive[v] /\ Declarable(v) /\ alive[w]
    /\ LET sw == RawMemoryMoveCtor(data_[w]) IN
       /\ data_' = [data_ EXCEPT ![v] = sw.self, ![w] = sw.other]
       /\ alive' = [alive EXCEPT ![v] = TRUE]
       /\ last' = Note("RawMemory(move)", v, w, -1, -1, Quiet("done"))
       /\ UNCHANGED <<T, heap, size_>>

RawMoveAssignCall(v, w) ==
    /\ Idle
    /\ alive[v] /\ alive[w]
    /\ LET sw == RawMemoryMoveAssign(data_[v], data_[w], v = w) IN
       /\ data_' = [data_ EXCEPT ![w] = sw.other, ![v] = sw.self]
       /\ last' = Note("RawMemory::operator=(move)", v, w, -1, -1, Quiet("done"))
       /\ UNCHANGED <<T, heap, size_, alive>>

RawSwapCall(v, w) ==
    /\ Idle
    /\ alive[v] /\ alive[w]
    /\ LET sw == RawMemorySwap(data_[v], data_[w]) IN
       /\ data_' = [data_ EXCEPT ![w] = sw.other, ![v] = sw.self]
       /\ last' = Note("RawMemory::Swap", v, w, -1, -1, Quiet("done"))
       /\ UNCHANGED <<T, heap, size_, alive>>

RawDtor(v) ==
    /\ Idle
    /\ alive[v] /\ Disposable(v)
    /\ LET r == Res(RawMemoryDtor(Start(heap, 0), data_[v]), Empty, 0, -1, "done") IN
       RawInstalled(v, Empty, FALSE, r.m.heap, Note("~RawMemory", v, v, -1, -1, r))

RawNext ==
    \/ \E v \in Names : RawDefaultCtor(v)
    \/ \E v \in Names, n \in Sizes : RawSizedCtor(v, n)
    \/ \E v \in Names, w \in Names : RawMoveCtor(v, w)
    \/ \E v \in Names, w \in Names : RawMoveAssignCall(v, w)
    \/ \E v \in Names, w \in Names : RawSwapCall(v, w)
    \/ \E v \in Names : RawDtor(v)
    \/ Continue

RawSpec == Init /\ [][RawNext]_vars

\* ---- observations ---------------------------------------------------------
Size(v) == size_[v]
Capacity(v) == data_[v].capacity_
Slot(v, i) == heap[data_[v].buffer_][i]

\* the element sequence of a vector with members d, s in heap h, from index 0
ElemsOf(h, d, s) == [i \in 0..(s - 1) |-> h[d.buffer_][i]]
Elems(v) == ElemsOf(heap, data_[v], size_[v])
ElemsAfter(v) == ElemsOf(heap', data_'[v], size_'[v])

\* f of length n with x put at index i, and with index i taken out
InsertAt(f, n, i, x) ==
    [k \in 0..n |-> IF k < i THEN f[k] ELSE IF k = i THEN x ELSE f[k - 1]]
RemoveAt(f, n, i) ==
    [k \in 0..(n - 2) |-> IF k < i THEN f[k] ELSE f[k + 1]]

\* what a caller can see of vector u is the same before and after the step
Same(u) ==
    /\ alive'[u] = alive[u]
    /\ size_'[u] = size_[u]
    /\ data_'[u] = data_[u]
    /\ alive[u] => ElemsAfter(u) = Elems(u)

\* ---- C1 -------------------------------------------------------------------
\* C1: in every reachable state, also after a call that threw, every vector
\* has 0 <= Size() <= Capacity(), a live object in every slot of [0, Size())
\* and no live object in any slot of [Size(), Capacity()).
C1_LiveExactlyBelowSize ==
    \A v \in Names : alive[v] =>
        /\ 0 <= Size(v) /\ Size(v) <= Capacity(v)
        /\ \A i \in 0..(Capacity(v) - 1) : Live(Slot(v, i)) <=> i < Size(v)

\* ---- C2 -------------------------------------------------------------------
\* C2: when a constructor of T throws inside a call, every object the call
\* constructed and did not commit, the temporary of the new value included,
\* has been destroyed exactly once when the exception leaves the call:
\* no temporary is left, no object is lost and none is destroyed twice.
C2_UncommittedDestroyedOnce ==
    (last.ex /\ last.cause = "ctor") =>
        /\ last.temps = 0
        /\ last.lost = 0
        /\ last.bad = 0

\* ---- C3 -------------------------------------------------------------------
\* the calls with the strong guarantee: Reserve, a reallocating Emplace or
\* Insert, copy construction and the reallocating copy assignment
StrongCall(c) ==
    \/ c.op = "Reserve"
    \/ c.op \in {"Emplace", "InsertSelf"} /\ c.path = "realloc"
    \/ c.op = "Vector(copy)"
    \/ c.op = "operator=(copy)" /\ c.path = "copy_swap"

FailedStrongCall(c) == StrongCall(c) /\ c.ex /\ c.cause \in {"alloc", "ctor"}

\* C3 as claimed: when the allocation or a construction fails in a call with
\* the strong guarantee, size, capacity and elements of every vector are what
\* they were before the call, for every element type.
C3_StrongGuaranteeAnyType ==
    [][FailedStrongCall(last') => \A u \in Names : Same(u)]_vars

\* C3 as amended: the same for an element type that is nothrow move
\* constructible or copy constructible.
C3_StrongGuarantee ==
    [][(FailedStrongCall(last')
        /\ (T.nothrow_move_constructible \/ T.copy_constructible))
       => \A u \in Names : Same(u)]_vars

\* a reallocating Emplace in which the copy of an old element threw
C3_Witness ==
    /\ last.op = "Emplace" /\ last.path = "realloc"
    /\ last.ex /\ last.cause = "ctor" /\ last.throwAt >= 3
    /\ T.copy_constructible
    /\ Size(last.v) >= 1

\* ---- C4 -------------------------------------------------------------------
\* C4: a successful Insert(begin() + i, v[j]) leaves the old sequence with a
\* copy of the old value of element j at index i, in place and reallocating.
C4_SelfInsert ==
    [][(last'.op = "InsertSelf" /\ ~last'.ex) =>
        LET v == last'.v IN
        /\ size_'[v] = size_[v] + 1
        /\ ElemsAfter(v) = InsertAt(Elems(v), size_[v], last'.idx, Elems(v)[last'.val])]_vars

\* an in-place self insert whose source lay in the shifted range and whose
\* value differs from the element it was put in front of
C4_Witness ==
    /\ last.op = "InsertSelf" /\ ~last.ex /\ last.path = "inplace"
    /\ last.idx < last.val
    /\ Slot(last.v, last.idx) # Slot(last.v, last.idx + 1)

\* ---- C5 -------------------------------------------------------------------
\* C5: a successful Emplace of x at begin() + i leaves s[0..i), x, s[i..n),
\* raises Size() by 1 and returns the position of index i.
C5_EmplaceAtIndex ==
    [][(last'.op = "Emplace" /\ ~last'.ex) =>
        LET v == last'.v IN
        /\ size_'[v] = size_[v] + 1
        /\ ElemsAfter(v) = InsertAt(Elems(v), size_[v], last'.idx, last'.val)
        /\ last'.ret = last'.idx]_vars

\* an in-place Emplace at the front of two elements that differ
C5_Witness ==
    /\ last.op = "Emplace" /\ ~last.ex /\ last.path = "inplace"
    /\ last.idx = 0 /\ Size(last.v) = 3
    /\ Slot(last.v, 1) # Slot(last.v, 2)

\* ---- C6 -------------------------------------------------------------------
\* C6: a successful Erase(begin() + i) takes exactly element i out, keeps the
\* order of the others, lowers Size() by 1, keeps the block and Capacity(),
\* destroys exactly one object and returns the position of index i.
C6_Erase ==
    [][(last'.op = "Erase" /\ ~last'.ex) =>
        LET v == last'.v IN
        /\ size_'[v] = size_[v] - 1
        /\ ElemsAfter(v) = RemoveAt(Elems(v), size_[v], last'.idx)
        /\ data_'[v] = data_[v]
        /\ last'.dtors = 1 /\ last'.ctors = 0
        /\ last'.ret = last'.idx]_vars

\* an Erase of the first of three elements, the remaining two differing
C6_Witness ==
    /\ last.op = "Erase" /\ ~last.ex /\ last.idx = 0
    /\ Size(last.v) = 2
    /\ Slot(last.v, 0) # Slot(last.v, 1)

\* ---- C7 -------------------------------------------------------------------
MoveAssigned(c) == c.op = "operator=(move)" /\ c.v # c.w

\* C7 as claimed: a = std::move(b) gives a the storage and length of b and
\* leaves b empty (Size() = 0, Capacity() = 0), whatever a held.
C7_MoveAssignEmptiesSource ==
    [][MoveAssigned(last') =>
        /\ data_'[last'.v] = data_[last'.w] /\ size_'[last'.v] = size_[last'.w]
        /\ size_'[last'.w] = 0 /\ data_'[last'.w] = Empty
        /\ ~last'.ex /\ last'.allocs = 0]_vars

\* C7 as amended: a = std::move(b) gives a the storage and length of b and b
\* the storage and length a had, without allocating, constructing, destroying
\* or throwing; b is left empty exactly when a was empty.
C7_MoveAssignExchanges ==
    [][MoveAssigned(last') =>
        /\ data_'[last'.v] = data_[last'.w] /\ size_'[last'.v] = size_[last'.w]
        /\ data_'[last'.w] = data_[last'.v] /\ size_'[last'.w] = size_[last'.v]
        /\ heap' = heap /\ alive' = alive
        /\ ~last'.ex /\ last'.allocs = 0 /\ last'.frees = 0
        /\ last'.ctors = 0 /\ last'.dtors = 0]_vars

\* a move assignment between two vectors that both held elements
C7_Witness ==
    /\ MoveAssigned(last)
    /\ Size(last.v) > 0 /\ Size(last.w) > 0

\* ---- C8 -------------------------------------------------------------------
\* C8: Vector a(std::move(b)) leaves b as a default-constructed vector and
\* gives a the size, capacity and elements b had, with no element constructed
\* or destroyed and no allocation.
C8_MoveConstruct ==
    [][last'.op = "Vector(move)" =>
        LET v == last'.v
            w == last'.w
        IN /\ alive'[v] /\ alive'[w]
           /\ size_'[w] = 0 /\ data_'[w] = Empty
           /\ size_'[v] = size_[w] /\ data_'[v].capacity_ = data_[w].capacity_
           /\ ElemsAfter(v) = Elems(w)
           /\ heap' = heap
           /\ ~last'.ex /\ last'.allocs = 0 /\ last'.frees = 0
           /\ last'.ctors = 0 /\ last'.dtors = 0]_vars

\* a move construction from a vector that held elements
C8_Witness ==
    /\ last.op = "Vector(move)"
    /\ Size(last.v) > 0 /\ Size(last.w) = 0

\* ---- C9 -------------------------------------------------------------------
\* C9: when the copy constructor of the K-th element throws while a vector is
\* copy-constructed, exactly K - 1 objects have been constructed and exactly
\* those K - 1 are destroyed, none of the source; the new block is released
\* and the source keeps its size and values.
C9_CopyConstructRollback ==
    [][(last'.op = "Vector(copy)" /\ last'.ex /\ last'.cause = "ctor") =>
        LET K == last'.throwAt - 1 IN
        /\ 1 <= K /\ K <= size_[last'.w]
        /\ last'.ctors = K - 1 /\ last'.dtors = K - 1
        /\ last'.allocs = 1 /\ last'.frees = 1
        /\ last'.lost = 0 /\ last'.bad = 0
        /\ heap' = heap
        /\ ~alive'[last'.v]
        /\ Same(last'.w)]_vars

\* the copy of the second element threw
C9_Witness ==
    /\ last.op = "Vector(copy)" /\ last.ex /\ last.cause = "ctor"
    /\ last.throwAt = 3 /\ last.dtors = 1

\* ---- C10 ------------------------------------------------------------------
\* two vectors that exist never have the same block
NoSharedBlock ==
    \A v \in Names : \A w \in Names \ {v} :
        (alive[v] /\ alive[w] /\ data_[v].buffer_ # Null)
            => data_[v].buffer_ # data_[w].buffer_

\* the calls that act on one vector only
OneVectorCall(c) ==
    c.op \in {"Emplace", "InsertSelf", "Erase", "Resize", "Reserve", "PopBack",
              "operator[]=", "~Vector", "operator=(copy)", "Vector(copy)",
              "Vector(size)", "Vector()"}

\* C10: no two vectors share a block, and a call on one vector (a mutation,
\* its destruction, or its construction or assignment as a copy) leaves the
\* size and the elements of every other vector as they were.
C10_NoAliasing ==
    /\ []NoSharedBlock
    /\ [][OneVectorCall(last') => \A u \in Names \ {last'.v} : Same(u)]_vars

\* an Emplace into a copy while the vector it was copied from holds elements
C10_Witness ==
    /\ last.op = "Emplace" /\ ~last.ex /\ last.v = "b"
    /\ alive["a"] /\ Size("a") > 0 /\ Size("b") > 0
    /\ Slot("a", 0) # Slot("b", 0)


\* ---- C11 ------------------------------------------------------------------
Max(x, y) == IF x < y THEN y ELSE x

\* C11: after a successful a = b, a has the size and the elements of b; when
\* the capacity of a sufficed, a keeps its block and capacity and exactly
\* max(0, old Size(a) - Size(b)) objects are destroyed; a = a changes nothing.
C11_CopyAssign ==
    [][(last'.op = "operator=(copy)" /\ ~last'.ex) =>
        LET v == last'.v
            w == last'.w
        IN /\ size_'[v] = size_[w]
           /\ ElemsAfter(v) = Elems(w)
           /\ Same(w)
           /\ (v # w /\ data_[v].capacity_ >= size_[w]) =>
                 /\ data_'[v] = data_[v]
                 /\ last'.dtors = Max(0, size_[v] - size_[w])
                 /\ last'.allocs = 0 /\ last'.frees = 0
           /\ v = w => (heap' = heap /\ data_' = data_ /\ size_' = size_
                        /\ last'.ctors = 0 /\ last'.dtors = 0 /\ last'.allocs = 0)]_vars

\* a copy assignment between two vectors into a block that is kept, which
\* gave a an element of b that is not a default value
C11_Witness ==
    /\ last.op = "operator=(copy)" /\ ~last.ex /\ last.path = "reuse"
    /\ last.v # last.w
    /\ Size(last.v) > 0
    /\ Slot(last.v, 0) # Default


\* ---- C12 ------------------------------------------------------------------
\* C12: an Emplace (Insert, PushBack, EmplaceBack) that fits the capacity
\* keeps the block and the capacity and allocates no block; a successful one
\* that does not fit makes the capacity max(1, 2 * old Capacity()).
C12_GrowthPolicy ==
    [][last'.op \in {"Emplace", "InsertSelf"} =>
        LET v == last'.v IN
        IF data_[v].capacity_ >= size_[v] + 1
        THEN data_'[v] = data_[v] /\ last'.allocs = 0 /\ last'.frees = 0
        ELSE ~last'.ex =>
               /\ data_'[v].capacity_ = Max(1, 2 * data_[v].capacity_)
               /\ data_'[v].buffer_ # data_[v].buffer_
               /\ last'.allocs = 1]_vars

\* a PushBack into a full vector of one element that doubled its capacity
C12_Witness ==
    /\ last.op = "Emplace" /\ ~last.ex /\ last.path = "realloc"
    /\ last.idx = 1 /\ Size(last.v) = 2 /\ Capacity(last.v) = 2


\* ---- C13 ------------------------------------------------------------------
\* a PushBack or EmplaceBack: an Emplace at end()
PushedBack(c) == c.op = "Emplace" /\ c.idx = size_[c.v]

\* C13: a successful PushBack raises Size() by exactly 1; PopBack on a vector
\* that is not empty destroys the last element and lowers Size() by exactly
\* 1; PopBack on an empty vector changes nothing and is not an error.
C13_PushPopSize ==
    [][/\ (PushedBack(last') /\ ~last'.ex) =>
             size_'[last'.v] = size_[last'.v] + 1
       /\ last'.op = "PopBack" =>
             LET v == last'.v IN
             /\ ~last'.ex /\ last'.asserts = 0
             /\ IF size_[v] > 0
                THEN /\ size_'[v] = size_[v] - 1
                     /\ data_'[v] = data_[v]
                     /\ last'.dtors = 1
                     /\ ~Live(heap'[data_[v].buffer_][size_[v] - 1])
                     /\ ElemsAfter(v) = [i \in 0..(size_[v] - 2) |-> Elems(v)[i]]
                ELSE /\ size_'[v] = 0 /\ data_'[v] = data_[v] /\ heap' = heap
                     /\ last'.dtors = 0]_vars

\* a PopBack that took the last of two elements
C13_Witness ==
    /\ last.op = "PopBack" /\ last.dtors = 1
    /\ Size(last.v) = 1 /\ Capacity(last.v) >= 2


\* ---- C14 ------------------------------------------------------------------
\* C14: after a successful Resize(n) from size m, Size() is n and the
\* elements [0, min(m, n)) keep their values; for n < m exactly the m - n
\* trailing elements are destroyed; for n > m the elements [m, n) are value
\* initialized, whatever the slots held earlier.
C14_Resize ==
    [][(last'.op = "Resize" /\ ~last'.ex) =>
        LET v == last'.v
            n == last'.idx
            m == size_[v]
        IN /\ size_'[v] = n
           /\ \A i \in 0..(Min(m, n) - 1) : ElemsAfter(v)[i] = Elems(v)[i]
           /\ n < m => /\ last'.dtors = m - n /\ last'.ctors = 0
                       /\ data_'[v] = data_[v]
                       /\ \A i \in n..(m - 1) : ~Live(heap'[data_[v].buffer_][i])
           /\ n > m => /\ \A i \in m..(n - 1) : ElemsAfter(v)[i] = Default
                       /\ data_'[v].capacity_ >= n
           /\ n = m => heap' = heap /\ data_'[v] = data_[v]]_vars

\* a Resize that grew a vector inside its block, over a slot left by an
\* element that was not a default value
C14_Witness ==
    /\ last.op = "Resize" /\ ~last.ex /\ last.path = "grow"
    /\ last.allocs = 0 /\ last.ctors = 1
    /\ Size(last.v) = 2 /\ Slot(last.v, 0) # Default /\ Slot(last.v, 1) = Default


\* ---- C15 ------------------------------------------------------------------
\* C15: Reserve(n) with n <= Capacity() allocates nothing and changes
\* nothing; a successful Reserve(n) with n > Capacity() makes Capacity()
\* exactly n and keeps Size() and the elements, and the old block is
\* released after each of its Size() objects was destroyed once.
C15_Reserve ==
    [][last'.op = "Reserve" =>
        LET v == last'.v
            n == last'.idx
            old == data_[v].buffer_
        IN IF n <= data_[v].capacity_
           THEN /\ ~last'.ex /\ heap' = heap /\ data_' = data_ /\ size_' = size_
                /\ last'.allocs = 0 /\ last'.frees = 0
                /\ last'.ctors = 0 /\ last'.dtors = 0
           ELSE ~last'.ex =>
                /\ data_'[v].capacity_ = n
                /\ size_'[v] = size_[v]
                /\ ElemsAfter(v) = Elems(v)
                /\ last'.allocs = 1
                /\ last'.ctors = size_[v] /\ last'.dtors = size_[v]
                /\ last'.bad = 0
                /\ old # Null => (heap'[old] = NoBlock /\ last'.frees = 1)
                /\ old = Null => last'.frees = 0]_vars

\* a Reserve that moved two elements into a larger block
C15_Witness ==
    /\ last.op = "Reserve" /\ ~last.ex /\ last.path = "realloc"
    /\ last.dtors = 2 /\ last.frees = 1
    /\ Size(last.v) = 2 /\ Capacity(last.v) = 3
    /\ Slot(last.v, 0) # Slot(last.v, 1)


\* ---- C16 ------------------------------------------------------------------
\* the objects alive in the blocks, and the blocks allocated
LiveSlots ==
    UNION {{<<b, i>> : i \in {j \in DOMAIN heap[b] : Live(heap[b][j])}} : b \in BlockIds}
Allocated == {b \in BlockIds : heap[b] # NoBlock}

\* every block belongs to exactly one vector, has that vector's capacity and
\* holds objects exactly in the slots of its elements: the state no failed
\* call has disturbed
Clean ==
    /\ \A v \in Names : alive[v] =>
          IF data_[v].buffer_ = Null
          THEN data_[v].capacity_ = 0 /\ size_[v] = 0
          ELSE /\ DOMAIN heap[data_[v].buffer_] = 0..(data_[v].capacity_ - 1)
               /\ data_[v].capacity_ > 0
               /\ \A i \in 0..(data_[v].capacity_ - 1) : Live(Slot(v, i)) <=> i < size_[v]
    /\ \A b \in Allocated :
          Cardinality({v \in Names : alive[v] /\ data_[v].buffer_ = b}) = 1

\* C16: a successful call made in an undisturbed state leaves an undisturbed
\* state, loses no object, destroys no object twice, releases no block twice
\* or with objects in it, leaves no temporary, and constructs and allocates
\* exactly what it destroys and releases plus what the vectors hold more than
\* before; so once every vector is destroyed no object and no block remains.
C16_ExactlyOnce ==
    /\ [][(Clean /\ last'.op # "none" /\ ~last'.ex) =>
            /\ Clean'
            /\ last'.lost = 0 /\ last'.bad = 0 /\ last'.temps = 0
            /\ last'.ctors - last'.dtors = Cardinality(LiveSlots') - Cardinality(LiveSlots)
            /\ last'.allocs - last'.frees = Cardinality(Allocated') - Cardinality(Allocated)]_vars
    /\ []((Clean /\ \A v \in Names : ~alive[v]) => (LiveSlots = {} /\ Allocated = {}))

\* the destruction of the last vector, which held elements
C16_Witness ==
    /\ last.op = "~Vector" /\ last.dtors >= 2 /\ last.frees = 1
    /\ \A v \in Names : ~alive[v]
    /\ Clean /\ Allocated = {}


\* ---- C17 ------------------------------------------------------------------
RawMoved(c) ==
    \/ c.op = "RawMemory(move)"
    \/ c.op = "RawMemory::operator=(move)" /\ c.v # c.w

\* no RawMemory call releases a block twice, and once every RawMemory object
\* is destroyed every block has been released
RawReleasedOnce ==
    /\ last.bad = 0
    /\ (\A v \in Names : ~alive[v]) => Allocated = {}

\* C17 as claimed: after a RawMemory is move-constructed or move-assigned
\* from a source, the source has a null buffer and capacity 0, whatever the
\* destination held, the destination holds the pair of the source, no two
\* objects hold the same block and every block is released exactly once.
C17_RawMoveEmptiesSource ==
    /\ [][RawMoved(last') =>
            /\ data_'[last'.v] = data_[last'.w]
            /\ data_'[last'.w] = Empty
            /\ heap' = heap]_vars
    /\ []NoSharedBlock
    /\ []RawReleasedOnce

\* C17 as amended: move construction leaves the source with a null buffer
\* and capacity 0; move assignment exchanges the pairs, so the source holds
\* what the destination held and is empty exactly when the destination was;
\* the destination holds the pair of the source, no memory is touched, no
\* two objects hold the same block and every block is released exactly once.
C17_RawMoveTransfers ==
    /\ [][RawMoved(last') =>
            /\ data_'[last'.v] = data_[last'.w]
            /\ data_'[last'.w] = (IF last'.op = "RawMemory(move)" THEN Empty
                                  ELSE data_[last'.v])
            /\ heap' = heap
            /\ last'.allocs = 0 /\ last'.frees = 0 /\ ~last'.ex]_vars
    /\ []NoSharedBlock
    /\ []RawReleasedOnce

\* a move assignment between two RawMemory objects that both held a block
C17_Witness ==
    /\ last.op = "RawMemory::operator=(move)" /\ last.v # last.w
    /\ data_[last.v].buffer_ # Null /\ data_[last.w].buffer_ # Null
    /\ data_[last.v].capacity_ # data_[last.w].capacity_


\* ---- C18 ------------------------------------------------------------------
\* a Reserve or a reallocating Emplace that threw
FailedRelocation(c) ==
    /\ c.ex
    /\ \/ c.op = "Reserve"
       \/ c.op \in {"Emplace", "InsertSelf"} /\ c.path = "realloc"

\* C18: when a Reserve or a reallocating Emplace fails at any of its steps
\* (the allocation, the new element, the prefix, the suffix), no object of
\* the old block has been destroyed, the old block has not been released and
\* data_ and size_ are unchanged, and everything built in the new block has
\* been destroyed: after a failure at the k-th construction of the prefix
\* the k - 1 objects of the prefix and the new element, after a failure at
\* the j-th construction of the suffix the j - 1 objects of the suffix and
\* the position + 1 objects before them.
C18_CommitOrdering ==
    [][FailedRelocation(last') =>
        LET v == last'.v
            old == data_[v].buffer_
            index == last'.idx
            k == last'.throwAt - 2
        IN /\ data_'[v] = data_[v] /\ size_'[v] = size_[v]
           /\ old # Null =>
                /\ DOMAIN heap'[old] = DOMAIN heap[old]
                /\ \A i \in DOMAIN heap[old] : Live(heap'[old][i]) <=> Live(heap[old][i])
           /\ last'.frees = last'.allocs
           /\ last'.dtors = last'.ctors
           /\ last'.lost = 0 /\ last'.bad = 0
           /\ (last'.op = "Reserve" /\ last'.cause = "ctor") =>
                last'.dtors = last'.throwAt - 2
           /\ (last'.op # "Reserve" /\ last'.cause = "ctor") =>
                last'.dtors = IF k <= 0 THEN 0
                              ELSE IF k <= index THEN (k - 1) + 1
                              ELSE (k - index - 1) + (index + 1)]_vars

\* an Emplace in the middle of two elements whose suffix step threw
C18_Witness ==
    /\ last.op = "Emplace" /\ last.path = "realloc"
    /\ last.ex /\ last.cause = "ctor"
    /\ last.idx = 1 /\ last.throwAt = 4 /\ last.dtors = 2
    /\ Size(last.v) = 2


\* ---- C19 ------------------------------------------------------------------
\* C19: in every call made within the preconditions of the public interface
\* no assertion of RawMemory fails: every offset given to operator+ is at
\* most the capacity of that block and every index given to operator[] is
\* below it, the offsets into the new block of a reallocation included.
C19_AssertionsHold == last.asserts = 0

\* a reallocating Emplace at end() whose position + 1 is the new capacity
C19_Witness ==
    /\ last.op = "Emplace" /\ ~last.ex /\ last.path = "realloc"
    /\ last.idx + 1 = Capacity(last.v) /\ last.asserts = 0
    /\ Size(last.v) = Capacity(last.v)


\* ---- C20 ------------------------------------------------------------------
\* the calls that exchange whole blocks: Swap, and the move assignment and
\* move construction that call it
ExchangesBlocks(c) == c.op \in {"Swap", "operator=(move)", "Vector(move)"}

====
